---------------------------- MODULE Spec2Model ----------------------------
(***************************************************************************)
(* A model of the two dtail report scripts:                                *)
(*   analyze_turbo_profiles.py    (CPU profile comparison report)          *)
(*   compare_turbo_benchmarks.py  (benchmark comparison report)            *)
(* Python strings are TLA+ strings, Python floats are exact rationals      *)
(* [num, den] in lowest terms, Python lists are sequences and Python       *)
(* dicts are sequences of entries in insertion order.                      *)
(***************************************************************************)
EXTENDS Integers, Sequences, FiniteSets, TLC

VARIABLES
    program,        \* which script runs: "profiles", "benchmarks", or a function under test
    pc,             \* position of the running script
    exc,            \* the uncaught exception that ended the run, or NoExc
    exit_code,      \* process exit status once the run ended, -1 while running
    stdout,         \* kinds of the lines printed so far
    env,            \* the inputs the run found: directories / files present
    tool_idx,       \* compare_profiles: index of the loop variable `tool`
    pprof,          \* how the latest profiler invocation ended, "none" before the first
    noturbo_funcs,  \* compare_profiles: noturbo_funcs
    turbo_funcs,    \* compare_profiles: turbo_funcs
    func_map,       \* compare_profiles: func_map (insertion ordered)
    rows,           \* the table rows printed for the current tool / by the benchmark report
    listed,         \* compare_profiles: functions printed as turbo specific
    no_turbo_results, \* main: no_turbo_results
    turbo_results,  \* main: turbo_results
    commands,       \* main: commands (insertion ordered)
    todo,           \* main: keys still to render, in rendering order
    summary,        \* main: the printed summary statistics, or None
    arg_a,          \* a function called on its own: first argument
    arg_b,          \* a function called on its own: second argument
    result          \* a function called on its own: what it returned

vars == << program, pc, exc, exit_code, stdout, env, tool_idx, pprof,
           noturbo_funcs, turbo_funcs, func_map, rows, listed,
           no_turbo_results, turbo_results, commands, todo, summary,
           arg_a, arg_b, result >>

(***************************************************************************)
(* Python values                                                           *)
(***************************************************************************)
None == [none |-> TRUE]

NoExc == [type |-> "none", where |-> "none"]

Raise(type, where) == [type |-> type, where |-> where]

(***************************************************************************)
(* str methods, character by character                                     *)
(***************************************************************************)
CharAt(s, i) == SubSeq(s, i, i)

\* `sub in s`
Contains(sub, s) ==
    \E i \in 1..(Len(s) - Len(sub) + 1) : SubSeq(s, i, i + Len(sub) - 1) = sub

\* characters str.split() and str.strip() treat as white space
IsSpace(c) == c \in {" ", "\t", "\r"}

SetMin(S) == CHOOSE x \in S : \A y \in S : x <= y

SetMax(S) == CHOOSE x \in S : \A y \in S : y <= x

\* the k-th smallest element of a set of numbers
Nth(S, k) == CHOOSE x \in S : Cardinality({y \in S : y <= x}) = k

\* s.split(): the maximal runs of characters that are not white space
Split(s) ==
    LET starts == {i \in 1..Len(s) :
                      ~IsSpace(CharAt(s, i)) /\ (i = 1 \/ IsSpace(CharAt(s, i - 1)))}
        EndOf(i) == SetMin({j \in i..Len(s) : j = Len(s) \/ IsSpace(CharAt(s, j + 1))})
    IN  [k \in 1..Cardinality(starts) |-> SubSeq(s, Nth(starts, k), EndOf(Nth(starts, k)))]

\* s.split(sep) for a one character separator: the pieces between its occurrences
SplitOn(s, sep) ==
    LET at == {i \in 1..Len(s) : CharAt(s, i) = sep}
        n == Cardinality(at)
        Cut(k) == IF k = 0 THEN 0 ELSE IF k = n + 1 THEN Len(s) + 1 ELSE Nth(at, k)
    IN  [k \in 1..(n + 1) |-> SubSeq(s, Cut(k - 1) + 1, Cut(k) - 1)]

\* s.strip()
Strip(s) ==
    LET kept == {i \in 1..Len(s) : ~IsSpace(CharAt(s, i))}
    IN  IF kept = {} THEN "" ELSE SubSeq(s, SetMin(kept), SetMax(kept))

\* s.rstrip(ch)
RStrip(s, ch) ==
    LET kept == {i \in 1..Len(s) : CharAt(s, i) # ch}
    IN  IF kept = {} THEN "" ELSE SubSeq(s, 1, SetMax(kept))

RECURSIVE Join(_, _)
\* sep.join(parts)
Join(sep, parts) ==
    IF parts = << >> THEN ""
    ELSE IF Len(parts) = 1 THEN parts[1]
    ELSE parts[1] \o sep \o Join(sep, Tail(parts))

\* seq[:n]
Take(seq, n) == SubSeq(seq, 1, IF Len(seq) < n THEN Len(seq) ELSE n)

(***************************************************************************)
(* Python floats as exact rationals in lowest terms                        *)
(***************************************************************************)
Abs(n) == IF n < 0 THEN -n ELSE n

RECURSIVE GCD(_, _)
GCD(a, b) == IF b = 0 THEN a ELSE GCD(b, a % b)

\* the rational n/d (d # 0) in lowest terms with a positive denominator
Rat(n, d) ==
    LET g == GCD(Abs(n), Abs(d))
        sgn == IF d < 0 THEN -1 ELSE 1
    IN  [num |-> sgn * (n \div g), den |-> sgn * (d \div g)]

Zero == Rat(0, 1)

RAdd(a, b) == Rat(a.num * b.den + b.num * a.den, a.den * b.den)

RSub(a, b) == Rat(a.num * b.den - b.num * a.den, a.den * b.den)

RMul(a, b) == Rat(a.num * b.num, a.den * b.den)

\* a / b for b # 0
RDiv(a, b) == Rat(a.num * b.den, a.den * b.num)

RNeg(a) == [num |-> -a.num, den |-> a.den]

RLess(a, b) == a.num * b.den < b.num * a.den

\* what a call returned, or the exception it raised
Ok(v) == [raised |-> "none", value |-> v]

Err(type) == [raised |-> type, value |-> None]

DigitVal ==
    ("0" :> 0) @@ ("1" :> 1) @@ ("2" :> 2) @@ ("3" :> 3) @@ ("4" :> 4) @@
    ("5" :> 5) @@ ("6" :> 6) @@ ("7" :> 7) @@ ("8" :> 8) @@ ("9" :> 9)

IsDot(c) == c = "."

\* how many characters of s are in the set chars
CountIn(s, chars) == Cardinality({i \in 1..Len(s) : CharAt(s, i) \in chars})

RECURSIVE FloatScan(_, _, _, _, _)
FloatScan(s, i, num, den, after_dot) ==
    IF i > Len(s) THEN Rat(num, den)
    ELSE IF IsDot(CharAt(s, i)) THEN FloatScan(s, i + 1, num, den, TRUE)
    ELSE FloatScan(s, i + 1, num * 10 + DigitVal[CharAt(s, i)],
                   IF after_dot THEN den * 10 ELSE den, after_dot)

\* float(s) for s made of digits, dots and other printable characters without
\* sign, exponent or white space: decimal digits with at most one dot and at
\* least one digit convert, anything else raises ValueError
Float(s) ==
    IF /\ CountIn(s, DOMAIN DigitVal \cup {"."}) = Len(s)
       /\ CountIn(s, {"."}) <= 1
       /\ CountIn(s, DOMAIN DigitVal) >= 1
    THEN Ok(FloatScan(s, 1, 0, 1, FALSE))
    ELSE Err("ValueError")

LowerOf ==
    ("A" :> "a") @@ ("B" :> "b") @@ ("C" :> "c") @@ ("D" :> "d") @@ ("E" :> "e") @@
    ("F" :> "f") @@ ("G" :> "g") @@ ("H" :> "h") @@ ("I" :> "i") @@ ("J" :> "j") @@
    ("K" :> "k") @@ ("L" :> "l") @@ ("M" :> "m") @@ ("N" :> "n") @@ ("O" :> "o") @@
    ("P" :> "p") @@ ("Q" :> "q") @@ ("R" :> "r") @@ ("S" :> "s") @@ ("T" :> "t") @@
    ("U" :> "u") @@ ("V" :> "v") @@ ("W" :> "w") @@ ("X" :> "x") @@ ("Y" :> "y") @@
    ("Z" :> "z")

RECURSIVE Lower(_)
\* s.lower() for ASCII text
Lower(s) ==
    IF s = "" THEN ""
    ELSE IF Len(s) = 1 THEN (IF s \in DOMAIN LowerOf THEN LowerOf[s] ELSE s)
    ELSE LET half == Len(s) \div 2
         IN  Lower(SubSeq(s, 1, half)) \o Lower(SubSeq(s, half + 1, Len(s)))

(***************************************************************************)
(* Python dicts: sequences of [key, val] in insertion order                *)
(***************************************************************************)
DictHas(d, k) == \E i \in 1..Len(d) : d[i].key = k

DictGet(d, k) == d[CHOOSE i \in 1..Len(d) : d[i].key = k].val

\* d[k] = v
DictPut(d, k, v) ==
    IF DictHas(d, k)
    THEN [i \in 1..Len(d) |-> IF d[i].key = k THEN [key |-> k, val |-> v] ELSE d[i]]
    ELSE Append(d, [key |-> k, val |-> v])

DictKeys(d) == {d[i].key : i \in 1..Len(d)}

(***************************************************************************)
(* analyze_turbo_profiles.py                                               *)
(***************************************************************************)
\* the value run_pprof_command returns for text the profiler wrote
Str(s) == [str |-> s]

\* `not output`
Falsy(output) == output = None \/ output.str = ""

\* run_pprof_command: invocation is what subprocess.run met:
\*   [kind |-> "ok", text |-> stdout], [kind |-> "exit_nonzero"] (CalledProcessError),
\*   [kind |-> "not_started"] (the executable cannot be started: FileNotFoundError)
RunPprofCommand(invocation) ==
    CASE invocation.kind = "ok" -> Ok(Str(invocation.text))
      [] invocation.kind = "exit_nonzero" -> Ok(None)
      [] invocation.kind = "not_started" -> Err("FileNotFoundError")

HeaderMarker == "flat  flat%"

RECURSIVE ExtractLoop(_, _, _, _)
\* the for loop of extract_top_functions over output.split('\n')
ExtractLoop(lines, i, in_data, functions) ==
    IF i > Len(lines) THEN functions
    ELSE IF Contains(HeaderMarker, lines[i])
         THEN ExtractLoop(lines, i + 1, TRUE, functions)
    ELSE IF in_data /\ Strip(lines[i]) # ""
         THEN LET parts == Split(lines[i])
              IN  IF Len(parts) >= 5
                  THEN ExtractLoop(lines, i + 1, in_data,
                           Append(functions,
                                  [func |-> Join(" ", SubSeq(parts, 5, Len(parts))),
                                   pct |-> parts[2],
                                   time |-> parts[1]]))
                  ELSE ExtractLoop(lines, i + 1, in_data, functions)
    ELSE ExtractLoop(lines, i + 1, in_data, functions)

\* extract_top_functions with in_data set from the start
ExtractFromOutputUngated(output) ==
    IF Falsy(output) THEN << >>
    ELSE ExtractLoop(SplitOn(output.str, "\n"), 1, TRUE, << >>)

\* extract_top_functions, from what run_pprof_command returned
ExtractFromOutput(output) ==
    IF Falsy(output) THEN << >>
    ELSE ExtractLoop(SplitOn(output.str, "\n"), 1, FALSE, << >>)

\* extract_top_functions(profile_path, n) when the profiler invocation meets `invocation`
ExtractTopFunctions(invocation) ==
    LET ran == RunPprofCommand(invocation)
    IN  IF ran.raised # "none" THEN Err(ran.raised)
        ELSE Ok(ExtractFromOutput(ran.value))

ZeroPercent == "0%"

RECURSIVE MergeNoTurbo(_, _)
\* first merge loop of compare_profiles
MergeNoTurbo(funcs, fm) ==
    IF funcs = << >> THEN fm
    ELSE MergeNoTurbo(Tail(funcs),
             DictPut(fm, Head(funcs).func,
                     [noturbo |-> Head(funcs).pct, turbo |-> ZeroPercent]))

RECURSIVE MergeTurboOverwriting(_, _)
\* second merge loop without the test of line 98
MergeTurboOverwriting(funcs, fm) ==
    IF funcs = << >> THEN fm
    ELSE MergeTurboOverwriting(Tail(funcs),
             DictPut(fm, Head(funcs).func,
                     [noturbo |-> ZeroPercent, turbo |-> Head(funcs).pct]))

RECURSIVE MergeTurbo(_, _)
\* second merge loop of compare_profiles
MergeTurbo(funcs, fm) ==
    IF funcs = << >> THEN fm
    ELSE LET f == Head(funcs)
         IN  MergeTurbo(Tail(funcs),
                 IF DictHas(fm, f.func)
                 THEN DictPut(fm, f.func,
                              [noturbo |-> DictGet(fm, f.func).noturbo, turbo |-> f.pct])
                 ELSE DictPut(fm, f.func, [noturbo |-> ZeroPercent, turbo |-> f.pct]))

\* func_map after both merge loops
MergeFuncs(nfuncs, tfuncs) == MergeTurbo(tfuncs, MergeNoTurbo(nfuncs, << >>))

\* the sort key of compare_profiles, line 109
SortKey(entry) ==
    IF entry.val.noturbo # ZeroPercent
    THEN Float(RStrip(entry.val.noturbo, "%"))
    ELSE Ok(Zero)

\* entry put behind every element of the descending list whose key is not smaller
InsertDesc(sorted, entry) ==
    LET k == SortKey(entry).value
        n == Cardinality({i \in 1..Len(sorted) : ~RLess(SortKey(sorted[i]).value, k)})
    IN  SubSeq(sorted, 1, n) \o << entry >> \o SubSeq(sorted, n + 1, Len(sorted))

RECURSIVE SortDesc(_, _)
SortDesc(items, sorted) ==
    IF items = << >> THEN sorted
    ELSE SortDesc(Tail(items), InsertDesc(sorted, Head(items)))

\* sorted(func_map.items(), key=..., reverse=True): every key is computed first
SortedFuncs(fm) ==
    IF \E i \in 1..Len(fm) : SortKey(fm[i]).raised # "none"
    THEN Err("ValueError")
    ELSE Ok(SortDesc(fm, << >>))

TopRows == 10

TopSpecific == 15

MaxNameLen == 48

\* the function name as printed in a table row
Truncate(func) ==
    IF Len(func) > MaxNameLen THEN SubSeq(func, 1, 45) \o "..." ELSE func

RECURSIVE PrintRows(_, _)
\* the row loop of compare_profiles: the rows printed, and the exception that ended it
PrintRows(entries, printed) ==
    IF entries = << >> THEN [raised |-> "none", rows |-> printed]
    ELSE LET data == Head(entries).val
             noturbo_pct == Float(RStrip(data.noturbo, "%"))
             turbo_pct == Float(RStrip(data.turbo, "%"))
         IN  IF noturbo_pct.raised # "none" \/ turbo_pct.raised # "none"
             THEN [raised |-> "ValueError", rows |-> printed]
             ELSE PrintRows(Tail(entries),
                      Append(printed,
                             [func |-> Truncate(Head(entries).key),
                              noturbo |-> data.noturbo,
                              turbo |-> data.turbo,
                              change |-> RSub(turbo_pct.value, noturbo_pct.value)]))

\* the test of line 128
IsTurboSpecific(func) ==
    LET lowered == Lower(func)
    IN  \/ Contains("turbo", lowered)
        \/ Contains("optimized", lowered)
        \/ Contains("channelless", lowered)
        \/ Contains("LineProcessor", func)

RECURSIVE SelectSpecific(_)
\* the functions the loop of lines 127-130 prints, in order
SelectSpecific(funcs) ==
    IF funcs = << >> THEN << >>
    ELSE IF IsTurboSpecific(Head(funcs).func)
         THEN << Head(funcs) >> \o SelectSpecific(Tail(funcs))
         ELSE SelectSpecific(Tail(funcs))

Tools == << "dcat", "dgrep", "dmap" >>

(***************************************************************************)
(* compare_turbo_benchmarks.py                                             *)
(***************************************************************************)
\* A match of the benchmark pattern is the record of its groups:
\*   [test_type, command, params, ns, mb : strings,
\*    hit, lines, recs : Str(text) when the optional group took part, else None]

\* `float(match.group(n)) if match.group(n) else None`
OptionalFloat(group) == IF Falsy(group) THEN Ok(None) ELSE Float(group.str)

\* lines 14-30: the key and the record one match yields
ParseMatch(m) ==
    LET ns_per_op == Float(m.ns)
        mb_per_sec == Float(m.mb)
        hit_rate == OptionalFloat(m.hit)
        lines_per_sec == OptionalFloat(m.lines)
        records_per_sec == OptionalFloat(m.recs)
    IN  IF \E r \in {ns_per_op, mb_per_sec, hit_rate, lines_per_sec, records_per_sec} :
               r.raised # "none"
        THEN Err("ValueError")
        ELSE Ok([key |-> m.test_type \o "/" \o m.command \o "/" \o m.params,
                 val |-> [ns_per_op |-> ns_per_op.value,
                          mb_per_sec |-> mb_per_sec.value,
                          hit_rate |-> hit_rate.value,
                          lines_per_sec |-> lines_per_sec.value,
                          records_per_sec |-> records_per_sec.value]])

RECURSIVE ParseLoop(_, _)
\* the for loop of parse_benchmark_results over re.finditer
ParseLoop(matches, results) ==
    IF matches = << >> THEN Ok(results)
    ELSE LET parsed == ParseMatch(Head(matches))
         IN  IF parsed.raised # "none" THEN Err(parsed.raised)
             ELSE ParseLoop(Tail(matches),
                            DictPut(results, parsed.value.key, parsed.value.val))

\* parse_benchmark_results(filename): exists says whether open() finds the file,
\* matches are the pattern's matches in its content, in order
ParseBenchmarkResults(exists, matches) ==
    IF ~exists THEN Err("FileNotFoundError") ELSE ParseLoop(matches, << >>)

\* calculate_improvement without the test of line 35
CalculateImprovementUnguarded(no_turbo, turbo) ==
    IF no_turbo = None \/ turbo = None THEN Err("TypeError")
    ELSE IF no_turbo.num = 0 THEN Err("ZeroDivisionError")
    ELSE Ok(RMul(RDiv(RSub(no_turbo, turbo), no_turbo), Rat(100, 1)))

\* calculate_improvement(no_turbo, turbo); an argument is a number or None
CalculateImprovement(no_turbo, turbo) ==
    IF no_turbo # None /\ no_turbo.num = 0 THEN Ok(Zero)
    ELSE IF no_turbo = None \/ turbo = None THEN Err("TypeError")
    ELSE Ok(RMul(RDiv(RSub(no_turbo, turbo), no_turbo), Rat(100, 1)))

\* the characters of the keys, in code point order
CodePoints == "/0123456789=ABCDEFGHIJKLMNOPQRSTUVWXYZ_abcdefghijklmnopqrstuvwxyz"

Ord(c) == CHOOSE i \in 1..Len(CodePoints) : CharAt(CodePoints, i) = c

\* a < b for Python strings: decided at the first place where they differ
StrLess(a, b) ==
    LET shorter == IF Len(a) < Len(b) THEN Len(a) ELSE Len(b)
        differ == {i \in 1..shorter : CharAt(a, i) # CharAt(b, i)}
    IN  IF differ = {} THEN Len(a) < Len(b)
        ELSE Ord(CharAt(a, SetMin(differ))) < Ord(CharAt(b, SetMin(differ)))

\* s behind every element of the ascending list that is not greater
InsertAsc(sorted, s) ==
    LET n == Cardinality({i \in 1..Len(sorted) : ~StrLess(s, sorted[i])})
    IN  SubSeq(sorted, 1, n) \o << s >> \o SubSeq(sorted, n + 1, Len(sorted))

RECURSIVE SortAsc(_, _)
SortAsc(items, sorted) ==
    IF items = << >> THEN sorted
    ELSE SortAsc(Tail(items), InsertAsc(sorted, Head(items)))

\* sorted(strings)
Sorted(items) == SortAsc(items, << >>)

\* key.split('/')[1]
CommandOf(key) == SplitOn(key, "/")[2]

\* key.split('/', 2)[2]
TestNameOf(key) == LET parts == SplitOn(key, "/") IN Join("/", SubSeq(parts, 3, Len(parts)))

RECURSIVE GroupByCommand(_, _, _)
\* lines 48-55: commands, from the keys of no_turbo_results in order
GroupByCommand(keys, turbo, cmds) ==
    IF keys = << >> THEN cmds
    ELSE LET key == Head(keys)
         IN  GroupByCommand(Tail(keys), turbo,
                 IF DictHas(turbo, key)
                 THEN DictPut(cmds, CommandOf(key),
                              IF DictHas(cmds, CommandOf(key))
                              THEN Append(DictGet(cmds, CommandOf(key)), key)
                              ELSE << key >>)
                 ELSE cmds)

KeySeq(d) == [i \in 1..Len(d) |-> d[i].key]

RECURSIVE RenderOrder(_, _)
\* the (command, key) pairs in the order the loops of lines 57 and 63 visit them
RenderOrder(sorted_commands, cmds) ==
    IF sorted_commands = << >> THEN << >>
    ELSE LET command == Head(sorted_commands)
             keys == Sorted(DictGet(cmds, command))
         IN  [i \in 1..Len(keys) |-> [command |-> command, key |-> keys[i], first |-> i = 1]]
             \o RenderOrder(Tail(sorted_commands), cmds)

\* `if value:` for a number or None
Truthy(value) == value # None /\ value.num # 0

Row(key, metric, no_turbo, turbo, shown) ==
    [key |-> key, test |-> TestNameOf(key), command |-> CommandOf(key),
     metric |-> metric, no_turbo |-> no_turbo, turbo |-> turbo, shown |-> shown]

\* lines 77-79 and 81-83: the row of an optional throughput metric, if one is printed
OptionalRow(key, metric, no_turbo_value, turbo_value) ==
    IF Truthy(no_turbo_value)
    THEN LET imp == CalculateImprovement(turbo_value, no_turbo_value)
         IN  IF imp.raised # "none"
             THEN [raised |-> imp.raised, rows |-> << >>]
             ELSE [raised |-> "none",
                   rows |-> << Row(key, metric, no_turbo_value, turbo_value,
                                   RNeg(imp.value)) >>]
    ELSE [raised |-> "none", rows |-> << >>]

\* lines 64-85: the rows printed for one key, and the exception that ended it
RenderKey(key, no_turbo, turbo) ==
    LET time_imp == CalculateImprovement(no_turbo.ns_per_op, turbo.ns_per_op)
        mb_imp == CalculateImprovement(turbo.mb_per_sec, no_turbo.mb_per_sec)
        fixed == << Row(key, "Time (ns/op)", no_turbo.ns_per_op, turbo.ns_per_op,
                        time_imp.value),
                    Row(key, "MB/sec", no_turbo.mb_per_sec, turbo.mb_per_sec,
                        RNeg(mb_imp.value)) >>
        lines == OptionalRow(key, "Lines/sec", no_turbo.lines_per_sec, turbo.lines_per_sec)
        records == OptionalRow(key, "Records/sec", no_turbo.records_per_sec,
                               turbo.records_per_sec)
    IN  IF lines.raised # "none" THEN [raised |-> lines.raised, rows |-> fixed]
        ELSE IF records.raised # "none"
             THEN [raised |-> records.raised, rows |-> fixed \o lines.rows]
        ELSE [raised |-> "none", rows |-> fixed \o lines.rows \o records.rows]

RECURSIVE TimeImprovements(_, _, _)
\* lines 91-95: total_time_improvement
TimeImprovements(keys, no_turbo, turbo) ==
    IF keys = << >> THEN << >>
    ELSE LET key == Head(keys)
         IN  (IF DictHas(turbo, key)
              THEN << CalculateImprovement(DictGet(no_turbo, key).ns_per_op,
                                           DictGet(turbo, key).ns_per_op).value >>
              ELSE << >>)
             \o TimeImprovements(Tail(keys), no_turbo, turbo)

RECURSIVE Sum(_)
Sum(values) == IF values = << >> THEN Zero ELSE RAdd(Head(values), Sum(Tail(values)))

\* max(values) and min(values) of a non-empty list
Max(values) ==
    values[CHOOSE i \in 1..Len(values) : \A j \in 1..Len(values) : ~RLess(values[i], values[j])]

Min(values) ==
    values[CHOOSE i \in 1..Len(values) : \A j \in 1..Len(values) : ~RLess(values[j], values[i])]

\* lines 97-101: the three statistics printed, None when nothing was compared
Summarise(values) ==
    IF values = << >> THEN None
    ELSE [avg |-> RDiv(Sum(values), Rat(Len(values), 1)),
          best |-> Max(values),
          worst |-> Min(values)]

(***************************************************************************)
(* Inputs                                                                  *)
(***************************************************************************)
MaxFuncs == 2

MaxBenchLines == 2

MaxLines == 3

MaxVal == 4

\* all sequences over S of length at most n
SeqsUpTo(S, n) == UNION {[1..k -> S] : k \in 0..n}

\* what the profiler writes before its table
Preamble == "Type: cpu\nShowing nodes accounting for 4s, 80% of 5s total\n"

TableHeader == "      flat  flat%   sum%        cum   cum%"

\* table lines of a profile
DataLines ==
    { "        3s   30%   30%       3s   30%  syscall.Syscall6",
      "        2s 20.5% 50.5%       2s   20%  main.(*TurboReader).Read",
      "        1s   10% 60.5%       1s   10%  internal/io.lineprocessor.run",
      "        1s     5% 65.5%      1s    5%  internal/io.LineProcessor.Do (inline)",
      "        1s   n/a 65.5%       1s    5%  runtime.selectgo" }

ProfilerText(lines) == Preamble \o TableHeader \o "\n" \o Join("\n", lines) \o "\n"

\* what an invocation of the profiler can meet
PprofInvocations ==
    { [kind |-> "exit_nonzero", text |-> ""], [kind |-> "not_started", text |-> ""] }
    \cup { [kind |-> "ok", text |-> ProfilerText(lines)] : lines \in SeqsUpTo(DataLines, MaxFuncs) }

BenchNames ==
    { [test_type |-> "DCat", command |-> "cat", params |-> "size=small"],
      [test_type |-> "DCat", command |-> "cat", params |-> "size=large"],
      [test_type |-> "DGrep", command |-> "grep", params |-> "size=small/hit=1"] }

\* the metric groups of a benchmark line
BenchMetrics ==
    { [ns |-> "10", mb |-> "5", hit |-> None, lines |-> None, recs |-> None],
      [ns |-> "5", mb |-> "10", hit |-> None, lines |-> Str("7"), recs |-> None],
      [ns |-> "4", mb |-> "12.5", hit |-> Str("90.0"), lines |-> Str("9"), recs |-> Str("6")],
      [ns |-> "8", mb |-> "0.00", hit |-> None, lines |-> Str("0"), recs |-> Str("3")],
      [ns |-> "1.2.3", mb |-> "5", hit |-> None, lines |-> None, recs |-> None] }

BenchMatches ==
    { [test_type |-> n.test_type, command |-> n.command, params |-> n.params,
       ns |-> m.ns, mb |-> m.mb, hit |-> m.hit, lines |-> m.lines, recs |-> m.recs] :
      n \in BenchNames, m \in BenchMetrics }

BenchContents == SeqsUpTo(BenchMatches, MaxBenchLines)

(***************************************************************************)
(* The two scripts                                                         *)
(***************************************************************************)
Idle ==
    /\ pc = "start"
    /\ exc = NoExc
    /\ exit_code = -1
    /\ stdout = << >>
    /\ tool_idx = 0
    /\ pprof = "none"
    /\ noturbo_funcs = << >>
    /\ turbo_funcs = << >>
    /\ func_map = << >>
    /\ rows = << >>
    /\ listed = << >>
    /\ no_turbo_results = << >>
    /\ turbo_results = << >>
    /\ commands = << >>
    /\ todo = << >>
    /\ summary = None

Init ==
    /\ program \in {"profiles", "benchmarks"}
    /\ env \in [noturbo : BOOLEAN, turbo : BOOLEAN]
    /\ Idle
    /\ arg_a = None
    /\ arg_b = None
    /\ result = None

profile_vars == << tool_idx, pprof, noturbo_funcs, turbo_funcs, func_map, listed >>

bench_vars == << no_turbo_results, turbo_results, commands, todo, summary >>

unit_vars == << arg_a, arg_b, result >>

\* extract_top_functions for each thing an invocation can meet
Extraction == [invocation \in PprofInvocations |-> ExtractTopFunctions(invocation)]

\* an uncaught exception ends the run with a traceback and exit status 1
Crash(type, where) ==
    /\ pc' = "crashed"
    /\ exc' = Raise(type, where)
    /\ exit_code' = 1

\* lines 152-160 and 62-64
ProfilesMain ==
    /\ program = "profiles"
    /\ pc = "start"
    /\ IF ~env.noturbo \/ ~env.turbo
       THEN /\ stdout' = << "error_directories" >>
            /\ pc' = "exited"
            /\ exit_code' = 1
            /\ UNCHANGED tool_idx
       ELSE /\ stdout' = << "title" >>
            /\ pc' = "tool"
            /\ tool_idx' = 1
            /\ UNCHANGED exit_code
    /\ UNCHANGED << program, env, exc, pprof, noturbo_funcs, turbo_funcs, func_map,
                    rows, listed, bench_vars, unit_vars >>

\* the loop of line 66 moves on to the next tool, or ends
NextTool ==
    /\ tool_idx' = tool_idx + 1
    /\ pc' = IF tool_idx = Len(Tools) THEN "bottleneck" ELSE "tool"

\* lines 67-86: the header of a tool and the search for its two profiles
ToolBegin ==
    /\ program = "profiles"
    /\ pc = "tool"
    /\ \E found_noturbo, found_turbo \in BOOLEAN :
          IF found_noturbo /\ found_turbo
          THEN /\ stdout' = stdout \o << "tool_header" >>
               /\ pc' = "extract_noturbo"
               /\ UNCHANGED tool_idx
          ELSE /\ stdout' = stdout \o << "tool_header", "profiles_not_found" >>
               /\ NextTool
    /\ pprof' = "none"
    /\ noturbo_funcs' = << >>
    /\ turbo_funcs' = << >>
    /\ func_map' = << >>
    /\ rows' = << >>
    /\ listed' = << >>
    /\ UNCHANGED << program, env, exc, exit_code, bench_vars, unit_vars >>

\* what run_pprof_command prints
PprofPrints(invocation) ==
    IF invocation.kind = "exit_nonzero" THEN << "error_running_pprof" >> ELSE << >>

\* line 89
ExtractNoTurbo ==
    /\ program = "profiles"
    /\ pc = "extract_noturbo"
    /\ \E invocation \in PprofInvocations :
          LET got == Extraction[invocation]
          IN  /\ pprof' = invocation.kind
              /\ stdout' = stdout \o PprofPrints(invocation)
              /\ IF got.raised # "none"
                 THEN /\ Crash(got.raised, "run_pprof_command")
                      /\ UNCHANGED noturbo_funcs
                 ELSE /\ noturbo_funcs' = got.value
                      /\ pc' = "extract_turbo"
                      /\ UNCHANGED << exc, exit_code >>
    /\ UNCHANGED << program, env, tool_idx, turbo_funcs, func_map, rows, listed,
                    bench_vars, unit_vars >>

\* line 90
ExtractTurbo ==
    /\ program = "profiles"
    /\ pc = "extract_turbo"
    /\ \E invocation \in PprofInvocations :
          LET got == Extraction[invocation]
          IN  /\ pprof' = invocation.kind
              /\ stdout' = stdout \o PprofPrints(invocation)
              /\ IF got.raised # "none"
                 THEN /\ Crash(got.raised, "run_pprof_command")
                      /\ UNCHANGED turbo_funcs
                 ELSE /\ turbo_funcs' = got.value
                      /\ pc' = "compare"
                      /\ UNCHANGED << exc, exit_code >>
    /\ UNCHANGED << program, env, tool_idx, noturbo_funcs, func_map, rows, listed,
                    bench_vars, unit_vars >>

\* lines 92-121: merge, table header, sort, rows
CompareTable ==
    /\ program = "profiles"
    /\ pc = "compare"
    /\ LET fm == MergeFuncs(noturbo_funcs, turbo_funcs)
           sorted_funcs == SortedFuncs(fm)
           printed == PrintRows(Take(sorted_funcs.value, TopRows), << >>)
       IN  /\ func_map' = fm
           /\ stdout' = stdout \o << "table_header" >>
           /\ IF sorted_funcs.raised # "none"
              THEN /\ Crash(sorted_funcs.raised, "compare_profiles")
                   /\ rows' = << >>
              ELSE /\ rows' = printed.rows
                   /\ IF printed.raised # "none"
                      THEN Crash(printed.raised, "compare_profiles")
                      ELSE /\ pc' = "specific"
                           /\ UNCHANGED << exc, exit_code >>
    /\ UNCHANGED << program, env, tool_idx, pprof, noturbo_funcs, turbo_funcs, listed,
                    bench_vars, unit_vars >>

\* lines 123-133
TurboSpecific ==
    /\ program = "profiles"
    /\ pc = "specific"
    /\ listed' = SelectSpecific(Take(turbo_funcs, TopSpecific))
    /\ stdout' = stdout \o << "specific_header" >>
                        \o (IF listed' = << >> THEN << "none_found" >> ELSE << "specific_rows" >>)
    /\ NextTool
    /\ UNCHANGED << program, env, exc, exit_code, pprof, noturbo_funcs, turbo_funcs,
                    func_map, rows, bench_vars, unit_vars >>

\* lines 135-150
Bottleneck ==
    /\ program = "profiles"
    /\ pc = "bottleneck"
    /\ stdout' = stdout \o << "bottleneck_analysis" >>
    /\ pc' = "done"
    /\ exit_code' = 0
    /\ UNCHANGED << program, env, exc, profile_vars, rows, bench_vars, unit_vars >>

\* line 40
BenchParseNoTurbo ==
    /\ program = "benchmarks"
    /\ pc = "start"
    /\ \E content \in BenchContents :
          LET parsed == ParseBenchmarkResults(env.noturbo, content)
          IN  IF parsed.raised # "none"
              THEN /\ Crash(parsed.raised, "parse_benchmark_results")
                   /\ UNCHANGED no_turbo_results
              ELSE /\ no_turbo_results' = parsed.value
                   /\ pc' = "parse_turbo"
                   /\ UNCHANGED << exc, exit_code >>
    /\ UNCHANGED << program, env, stdout, profile_vars, rows, turbo_results, commands,
                    todo, summary, unit_vars >>

\* line 41
BenchParseTurbo ==
    /\ program = "benchmarks"
    /\ pc = "parse_turbo"
    /\ \E content \in BenchContents :
          LET parsed == ParseBenchmarkResults(env.turbo, content)
          IN  IF parsed.raised # "none"
              THEN /\ Crash(parsed.raised, "parse_benchmark_results")
                   /\ UNCHANGED turbo_results
              ELSE /\ turbo_results' = parsed.value
                   /\ pc' = "group"
                   /\ UNCHANGED << exc, exit_code >>
    /\ UNCHANGED << program, env, stdout, profile_vars, rows, no_turbo_results, commands,
                    todo, summary, unit_vars >>

\* lines 43-55: the title, and the compared keys grouped by command
BenchGroup ==
    /\ program = "benchmarks"
    /\ pc = "group"
    /\ stdout' = << "title" >>
    /\ commands' = GroupByCommand(KeySeq(no_turbo_results), turbo_results, << >>)
    /\ todo' = RenderOrder(Sorted(KeySeq(commands')), commands')
    /\ pc' = "render"
    /\ UNCHANGED << program, env, exc, exit_code, profile_vars, rows, no_turbo_results,
                    turbo_results, summary, unit_vars >>

\* lines 57-85, one key of one command per step
BenchRenderKey ==
    /\ program = "benchmarks"
    /\ pc = "render"
    /\ todo # << >>
    /\ LET item == Head(todo)
           rendered == RenderKey(item.key, DictGet(no_turbo_results, item.key),
                                 DictGet(turbo_results, item.key))
       IN  /\ stdout' = stdout \o (IF item.first THEN << "group_header" >> ELSE << >>)
                               \o << "rows" >>
           /\ rows' = rows \o rendered.rows
           /\ IF rendered.raised # "none"
              THEN /\ Crash(rendered.raised, "main")
                   /\ UNCHANGED todo
              ELSE /\ todo' = Tail(todo)
                   /\ UNCHANGED << pc, exc, exit_code >>
    /\ UNCHANGED << program, env, profile_vars, no_turbo_results, turbo_results, commands,
                    summary, unit_vars >>

\* lines 87-104
BenchSummary ==
    /\ program = "benchmarks"
    /\ pc = "render"
    /\ todo = << >>
    /\ summary' = Summarise(TimeImprovements(KeySeq(no_turbo_results), no_turbo_results,
                                             turbo_results))
    /\ stdout' = stdout \o << "summary_header" >>
                        \o (IF summary' # None THEN << "summary" >> ELSE << >>)
                        \o << "note" >>
    /\ pc' = "done"
    /\ exit_code' = 0
    /\ UNCHANGED << program, env, exc, profile_vars, rows, no_turbo_results, turbo_results,
                    commands, todo, unit_vars >>

Next ==
    \/ ProfilesMain
    \/ ToolBegin
    \/ ExtractNoTurbo
    \/ ExtractTurbo
    \/ CompareTable
    \/ TurboSpecific
    \/ Bottleneck
    \/ BenchParseNoTurbo
    \/ BenchParseTurbo
    \/ BenchGroup
    \/ BenchRenderKey
    \/ BenchSummary

Spec == Init /\ [][Next]_vars

(***************************************************************************)
(* The functions called on their own                                       *)
(***************************************************************************)
\* numbers n/1 and n/2
Numbers == {Rat(n, d) : n \in (-MaxVal)..MaxVal, d \in {1, 2}}

HeaderTokens == << "flat", "flat%", "sum%", "cum", "cum%" >>

DataTokens == << "1s", "50%", "50%", "1s", "50%", "main.f", "(inline)" >>

\* lines of profiler output: blank ones, and the first tokens of a header or of a
\* table line, one or two blanks apart
LineSet ==
    { "", " " }
    \cup { Join(gap, Take(HeaderTokens, n)) : gap \in {" ", "  "}, n \in {4, 5} }
    \cup { Join(" ", Take(DataTokens, n)) : n \in {4, 5, 7} }
    \cup { "2s 7% 57% 2s 7% a.b", "  2s    7%  \t 57% 2s 7%   a.b  " }

ProfilerTexts == { Join("\n", lines) : lines \in SeqsUpTo(LineSet, MaxLines) }

\* function tuples as extract_top_functions builds them
FuncEntries ==
    { [func |-> f, pct |-> p, time |-> "1s"] : f \in {"a", "b", "c"}, p \in {"10%", "20%"} }

InitUnits ==
    /\ Idle
    /\ env = [noturbo |-> TRUE, turbo |-> TRUE]
    /\ result = None
    /\ \/ /\ program = "calculate_improvement"
          /\ arg_a \in Numbers
          /\ arg_b \in Numbers
       \/ /\ program = "extract_top_functions"
          /\ arg_a \in { [kind |-> "exit_nonzero", text |-> ""],
                         [kind |-> "not_started", text |-> ""] }
                      \cup { [kind |-> "ok", text |-> t] : t \in ProfilerTexts }
          /\ arg_b = None
       \/ /\ program = "merge"
          /\ arg_a \in SeqsUpTo(FuncEntries, MaxFuncs)
          /\ arg_b \in SeqsUpTo(FuncEntries, MaxFuncs)

Returned ==
    /\ pc' = "returned"
    /\ UNCHANGED << program, exc, exit_code, stdout, env, profile_vars, rows, bench_vars,
                    arg_a, arg_b >>

CallCalculateImprovement ==
    /\ program = "calculate_improvement"
    /\ pc = "start"
    /\ result' = CalculateImprovement(arg_a, arg_b)
    /\ Returned

CallExtractTopFunctions ==
    /\ program = "extract_top_functions"
    /\ pc = "start"
    /\ result' = ExtractTopFunctions(arg_a)
    /\ Returned

CallMergeFuncs ==
    /\ program = "merge"
    /\ pc = "start"
    /\ result' = MergeFuncs(arg_a, arg_b)
    /\ Returned

NextUnits ==
    \/ CallCalculateImprovement
    \/ CallExtractTopFunctions
    \/ CallMergeFuncs

SpecUnits == InitUnits /\ [][NextUnits]_vars

(***************************************************************************)
(* Properties                                                              *)
(***************************************************************************)
Terminated == pc \in {"done", "exited", "crashed"}

Hundred == Rat(100, 1)

ThroughputMetrics == {"MB/sec", "Lines/sec", "Records/sec"}

\* C1: in the benchmark report every throughput row (MB/sec, Lines/sec,
\* Records/sec) shows a positive percentage when the turbo value is greater than
\* the no-turbo value and a negative one when it is smaller.
C1_ThroughputSignMeansBetter ==
    program = "benchmarks" =>
        \A i \in 1..Len(rows) :
            rows[i].metric \in ThroughputMetrics =>
                /\ RLess(rows[i].no_turbo, rows[i].turbo) => rows[i].shown.num > 0
                /\ RLess(rows[i].turbo, rows[i].no_turbo) => rows[i].shown.num < 0

\* C2: calculate_improvement(baseline, variant) returns
\* ((baseline - variant) / baseline) * 100 when baseline # 0 and 0 otherwise, so
\* (x, x) gives 0 and (x, 0) gives 100 for x # 0, and (0, y) gives 0 for y > 0
\* without a division fault.
C2_ImprovementFormula ==
    (program = "calculate_improvement" /\ pc = "returned") =>
        /\ result.raised = "none"
        /\ arg_a.num # 0 =>
               RMul(result.value, arg_a) = RMul(RSub(arg_a, arg_b), Hundred)
        /\ arg_a.num = 0 => result.value = Zero
        /\ (arg_a.num # 0 /\ arg_b = arg_a) => result.value = Zero
        /\ (arg_a.num # 0 /\ arg_b.num = 0) => result.value = Hundred
        /\ (arg_a.num = 0 /\ arg_b.num > 0) => result = Ok(Zero)

\* a zero baseline with a positive variant has been evaluated to 0
C2_Witness ==
    /\ program = "calculate_improvement"
    /\ pc = "returned"
    /\ arg_a.num = 0
    /\ arg_b.num > 0
    /\ result = Ok(Zero)

\* the names in a list of function tuples
NamesOf(funcs) == {funcs[i].func : i \in 1..Len(funcs)}

\* the percentage of the last tuple of funcs that names func
LastPct(funcs, func) == funcs[SetMax({i \in 1..Len(funcs) : funcs[i].func = func})].pct

\* C3: after the two merge loops the keys of func_map are the union of the
\* baseline and variant function names, each exactly once; a key absent from the
\* variant list has turbo '0%', a key absent from the baseline list has noturbo
\* '0%', and every side that has the key keeps its actual (last listed) percentage.
C3_MergeIsUnion ==
    (program = "merge" /\ pc = "returned") =>
        /\ DictKeys(result) = NamesOf(arg_a) \cup NamesOf(arg_b)
        /\ Len(result) = Cardinality(NamesOf(arg_a) \cup NamesOf(arg_b))
        /\ \A i \in 1..Len(result) :
              LET key == result[i].key
                  data == result[i].val
              IN  /\ data.noturbo = IF key \in NamesOf(arg_a)
                                    THEN LastPct(arg_a, key) ELSE ZeroPercent
                  /\ data.turbo = IF key \in NamesOf(arg_b)
                                  THEN LastPct(arg_b, key) ELSE ZeroPercent

\* a merge of a baseline list with a repeated name, a name on both sides and a
\* name on the variant side only
C3_Witness ==
    /\ program = "merge"
    /\ pc = "returned"
    /\ Len(arg_a) = 2
    /\ Cardinality(NamesOf(arg_a)) = 1
    /\ NamesOf(arg_a) \subseteq NamesOf(arg_b)
    /\ NamesOf(arg_b) \ NamesOf(arg_a) # {}
    /\ Len(result) = 2

\* the lines of a profiler text that contain the header marker
MarkerLines(lines) == {i \in 1..Len(lines) : Contains(HeaderMarker, lines[i])}

\* the non-blank lines behind the first marker line that have at least 5 tokens
DataLinesAfterMarker(lines) ==
    {i \in 1..Len(lines) :
        /\ MarkerLines(lines) # {}
        /\ i > SetMin(MarkerLines(lines))
        /\ Strip(lines[i]) # ""
        /\ Len(Split(lines[i])) >= 5}

\* one record per line of the set at, in source order
RecordsOf(lines, at) ==
    [k \in 1..Cardinality(at) |->
        LET parts == Split(lines[Nth(at, k)])
        IN  [func |-> Join(" ", SubSeq(parts, 5, Len(parts))),
             pct |-> parts[2],
             time |-> parts[1]]]

\* C4 as stated: extract_top_functions returns, in source order, exactly one
\* record per non-blank line that follows the first marker line and has at least
\* 5 tokens (time = token 0, percent = token 1, name = tokens 4.. joined by single
\* blanks), and nothing for a text without the marker.
C4_OneRecordPerLineAfterMarker ==
    (program = "extract_top_functions" /\ pc = "returned" /\ arg_a.kind = "ok") =>
        LET lines == SplitOn(arg_a.text, "\n")
        IN  result = Ok(RecordsOf(lines, DataLinesAfterMarker(lines)))

\* C4 amended: extract_top_functions returns, in source order, exactly one record
\* per non-blank line that follows the first marker line, does not itself contain
\* the marker and has at least 5 tokens, and nothing for a text without the marker.
C4_OneRecordPerDataLine ==
    (program = "extract_top_functions" /\ pc = "returned" /\ arg_a.kind = "ok") =>
        LET lines == SplitOn(arg_a.text, "\n")
        IN  result = Ok(RecordsOf(lines, DataLinesAfterMarker(lines) \ MarkerLines(lines)))

\* a text with a second header line behind the first and one record extracted
C4_Witness ==
    /\ program = "extract_top_functions"
    /\ pc = "returned"
    /\ arg_a.kind = "ok"
    /\ Cardinality(MarkerLines(SplitOn(arg_a.text, "\n"))) = 2
    /\ result.raised = "none"
    /\ Len(result.value) = 1

\* the keys present in both result maps
ComparedKeys == DictKeys(no_turbo_results) \cap DictKeys(turbo_results)

\* the time improvement of a compared key
TimeImprovementOf(key) ==
    CalculateImprovement(DictGet(no_turbo_results, key).ns_per_op,
                         DictGet(turbo_results, key).ns_per_op).value

RECURSIVE SumOfImprovements(_)
SumOfImprovements(keys) ==
    IF keys = {} THEN Zero
    ELSE LET key == CHOOSE k \in keys : TRUE
         IN  RAdd(TimeImprovementOf(key), SumOfImprovements(keys \ {key}))

\* C5: in the benchmark report exactly the keys present in both result maps are
\* compared: each is rendered once, in one command group, and adds one value to
\* the summary, whose average, best and worst are the mean, maximum and minimum
\* of those values; a key of one map only is in no table and not in the summary.
C5_ComparedKeysRenderedOnce ==
    (program = "benchmarks" /\ Terminated /\ stdout # << >>) =>
        /\ \A key \in ComparedKeys :
              /\ Cardinality({i \in 1..Len(rows) :
                     rows[i].key = key /\ rows[i].metric = "Time (ns/op)"}) = 1
              /\ Cardinality({i \in 1..Len(commands) :
                     \E j \in 1..Len(commands[i].val) : commands[i].val[j] = key}) = 1
        /\ \A i \in 1..Len(rows) : rows[i].key \in ComparedKeys
        /\ IF ComparedKeys = {} THEN summary = None
           ELSE /\ summary # None
                /\ summary.avg = RDiv(SumOfImprovements(ComparedKeys),
                                      Rat(Cardinality(ComparedKeys), 1))
                /\ \E key \in ComparedKeys : summary.best = TimeImprovementOf(key)
                /\ \E key \in ComparedKeys : summary.worst = TimeImprovementOf(key)
                /\ \A key \in ComparedKeys :
                      /\ ~RLess(summary.best, TimeImprovementOf(key))
                      /\ ~RLess(TimeImprovementOf(key), summary.worst)

\* C6: a profiler invocation that fails, by exiting non-zero or by not starting,
\* is caught in run_pprof_command: no exception leaves it, the extraction it
\* served is empty, and compare_profiles goes on.
C6_ProfilerFailureCaught ==
    (program = "profiles" /\ pprof \in {"exit_nonzero", "not_started"}) =>
        /\ exc.where # "run_pprof_command"
        /\ pc = "extract_turbo" => noturbo_funcs = << >>
        /\ pc = "compare" => turbo_funcs = << >>

\* C7: numeric parsing never raises in either report: a malformed numeric token
\* is treated as absent and the run goes on to the end of the report.
C7_NumericParsingNeverRaises ==
    /\ exc.type # "ValueError"
    /\ (Terminated /\ exc.type \notin {"FileNotFoundError", "TypeError"}
                   /\ env.noturbo /\ env.turbo) => pc = "done"

\* C8: with a required input location absent the run ends with a non-zero exit
\* status and no line of the report is written; with both profile directories
\* present the profile report runs to completion.
C8_MissingInputAborts ==
    /\ (~env.noturbo \/ ~env.turbo) =>
           /\ \A i \in 1..Len(stdout) : stdout[i] = "error_directories"
           /\ Terminated => exit_code # 0
           /\ pc # "done"
    /\ (program = "profiles" /\ env.noturbo /\ env.turbo /\ Terminated) =>
           (pc = "done" /\ exit_code = 0)

Markers == {"turbo", "optimized", "channelless", "LineProcessor"}

\* the name contains one of the markers, compared case-insensitively
HasMarkerIgnoringCase(func) == \E m \in Markers : Contains(Lower(m), Lower(func))

\* the turbo specific section of the current tool has been printed
SpecificPrinted ==
    /\ program = "profiles"
    /\ stdout # << >>
    /\ stdout[Len(stdout)] \in {"none_found", "specific_rows"}

\* C9: for each tool the turbo specific section lists exactly the functions of
\* the turbo list whose name contains 'turbo', 'optimized', 'channelless' or
\* 'LineProcessor' compared case-insensitively, and the none-found statement is
\* printed exactly when no function of the list matches.
C9_MarkersCaseInsensitive ==
    SpecificPrinted =>
        /\ \A i \in 1..Len(turbo_funcs) :
              HasMarkerIgnoringCase(turbo_funcs[i].func) =>
                  \E j \in 1..Len(listed) : listed[j] = turbo_funcs[i]
        /\ \A j \in 1..Len(listed) : HasMarkerIgnoringCase(listed[j].func)
        /\ stdout[Len(stdout)] = "none_found" <=>
              \A i \in 1..Len(turbo_funcs) : ~HasMarkerIgnoringCase(turbo_funcs[i].func)

\* C10: whatever optional fields lines_per_sec and records_per_sec are present on
\* either side, rendering a compared key completes without a fault, a Lines/sec or
\* Records/sec row is printed only when both sides hold a value, and
\* calculate_improvement never gets an absent operand.
C10_OptionalFieldsRenderSafely ==
    program = "benchmarks" =>
        /\ exc.type # "TypeError"
        /\ \A i \in 1..Len(rows) : rows[i].no_turbo # None /\ rows[i].turbo # None

=============================================================================
